---- MODULE Spec2Model ----
(***************************************************************************)
(* Model of notifications.go: the Linked-Data-Notification inbox of the    *)
(* CITE microservice.  Notifications are stored in one ordered key-value   *)
(* space (badger) under the key "<inboxID>-<notificationID>", listed by a  *)
(* prefix scan and served through two HTTP handlers.                       *)
(*                                                                         *)
(* Strings are sequences of one-character strings (so that concatenation,  *)
(* prefixes and byte order can be computed); fixed pieces of URIs and      *)
(* messages are single multi-character tokens.                             *)
(***************************************************************************)
EXTENDS Integers, Sequences, FiniteSets, TLC

\* Number of identifiers the generator can hand out in one run.
MaxIds == 2

\* Longest listing handed to makeLDNInbox in a direct call.
MaxList == 2

\* const maxResponseSize (scaled down: 128 in the source).
maxResponseSize == 1

----------------------------------------------------------------------------
(* Strings and byte order                                                  *)

\* The characters that occur in keys, in ascending byte order.
Alphabet == <<"-", "1", "2", "3", "4", "5", "6", "7", "8", "9", "a", "b">>

byte(c) == CHOOSE i \in 1..Len(Alphabet) : Alphabet[i] = c

Min(a, b) == IF a < b THEN a ELSE b

\* bytes.Compare(a, b) < 0, the order in which badger iterates keys.
LexLess(a, b) ==
    \E i \in 1..(Min(Len(a), Len(b)) + 1) :
        /\ \A j \in 1..(i - 1) : a[j] = b[j]
        /\ IF i > Len(a) THEN i <= Len(b)
           ELSE i <= Len(b) /\ byte(a[i]) < byte(b[i])

\* bytes.HasPrefix(key, prefix), the test made by it.ValidForPrefix.
HasPrefix(key, prefix) ==
    /\ Len(prefix) <= Len(key)
    /\ SubSeq(key, 1, Len(prefix)) = prefix

\* fmt.Sprintf("%s-", inboxID)
prefixOf(inboxID) == inboxID \o <<"-">>

\* fmt.Sprintf("%s-%s", inboxID, notificationID)
keyOf(inboxID, notificationID) == inboxID \o <<"-">> \o notificationID

\* fmt.Sprintf("http://%s/texts/%s/inbox", r.Host, inboxURN)
inboxURI(host, inboxURN) == <<"http://">> \o host \o <<"/texts/">> \o inboxURN \o <<"/inbox">>

\* fmt.Sprintf("http://%s/texts/%s/inbox/%s", r.Host, inboxURN, id)
memberURI(host, inboxURN, id) ==
    <<"http://">> \o host \o <<"/texts/">> \o inboxURN \o <<"/inbox/">> \o id

----------------------------------------------------------------------------
(* Records and their JSON encoding                                         *)

\* type Notification; Notification{} is the zero value.
Notification(id, actor, object, target, updated) ==
    [ID |-> id, Actor |-> actor, Object |-> object, Target |-> target,
     Updated |-> updated]

zeroNotification == Notification(<<>>, <<>>, <<>>, <<>>, <<>>)

\* encoding/json coerces strings to valid UTF-8: a byte that is not valid
\* UTF-8 ("xFF") is replaced by the replacement rune U+FFFD ("uFFFD"),
\* both when encoding and when decoding.
utf8(s) == [i \in 1..Len(s) |-> IF s[i] = "xFF" THEN "uFFFD" ELSE s[i]]

\* A JSON text: the object's members and whether the text is complete
\* (a text cut before its closing brace does not parse).
jsonText(id, actor, object, target, updated, closed) ==
    [id |-> id, actor |-> actor, object |-> object, target |-> target,
     updated |-> updated, closed |-> closed]

\* json.Marshal(&notification); never fails for a struct of strings.
jsonMarshal(n) ==
    [bytes |-> jsonText(utf8(n.ID), utf8(n.Actor), utf8(n.Object),
                        utf8(n.Target), utf8(n.Updated), TRUE),
     err |-> "nil"]

\* json.Unmarshal(v, &notification) and json.NewDecoder(r.Body).Decode(&n)
jsonUnmarshal(v) ==
    IF ~v.closed
    THEN [n |-> zeroNotification, err |-> "unexpected end of JSON input"]
    ELSE [n |-> Notification(utf8(v.id), utf8(v.actor), utf8(v.object),
                             utf8(v.target), utf8(v.updated)),
          err |-> "nil"]

----------------------------------------------------------------------------
(* Storage layer                                                           *)

\* The keys of the store in iteration (byte) order.
RECURSIVE SortedKeys(_)
SortedKeys(S) ==
    IF S = {} THEN <<>>
    ELSE LET m == CHOOSE k \in S : \A o \in S \ {k} : LexLess(k, o)
         IN  <<m>> \o SortedKeys(S \ {m})

\* it.Seek(prefix): position of the first key >= prefix.
Seek(keys, prefix) ==
    IF \E i \in 1..Len(keys) : ~LexLess(keys[i], prefix)
    THEN CHOOSE i \in 1..Len(keys) :
            /\ ~LexLess(keys[i], prefix)
            /\ \A j \in 1..(i - 1) : LexLess(keys[j], prefix)
    ELSE Len(keys) + 1

\* The loop of getInbox handing back, with the error, the records decoded
\* before the value that does not decode.
RECURSIVE scanLoop_partial(_, _, _, _, _)
scanLoop_partial(kv, keys, i, prefix, notifications) ==
    IF i > Len(keys) \/ ~HasPrefix(keys[i], prefix)
    THEN [ns |-> notifications, err |-> "nil"]
    ELSE LET u == jsonUnmarshal(kv[keys[i]])
         IN  IF u.err # "nil"
             THEN [ns |-> notifications, err |-> u.err]
             ELSE scanLoop_partial(kv, keys, i + 1, prefix, Append(notifications, u.n))

\* The loop of getInbox: for it.Seek(prefix); it.ValidForPrefix(prefix); it.Next()
RECURSIVE scanLoop(_, _, _, _, _)
scanLoop(kv, keys, i, prefix, notifications) ==
    IF i > Len(keys) \/ ~HasPrefix(keys[i], prefix)
    THEN [ns |-> notifications, err |-> "nil"]
    ELSE LET u == jsonUnmarshal(kv[keys[i]])
         IN  IF u.err # "nil"
             THEN [ns |-> <<>>, err |-> u.err]
             ELSE scanLoop(kv, keys, i + 1, prefix, Append(notifications, u.n))

\* func getInbox(inboxID string) ([]Notification, error)
getInbox(inboxID, kv) ==
    LET keys   == SortedKeys(DOMAIN kv)
        prefix == prefixOf(inboxID)
    IN  scanLoop(kv, keys, Seek(keys, prefix), prefix, <<>>)

\* The closure run by db.View in getNotification: txn.Get, then item.Value.
viewNotification(inboxID, notificationID, kv) ==
    LET id == keyOf(inboxID, notificationID)
    IN  IF id \notin DOMAIN kv
        THEN [n |-> zeroNotification, err |-> "Key not found"]
        ELSE jsonUnmarshal(kv[id])

\* func getNotification(inboxID, notificationID string) (Notification, error)
getNotification(inboxID, notificationID, kv) ==
    LET v == viewNotification(inboxID, notificationID, kv)
    IN  IF v.err # "nil"
        THEN [n |-> zeroNotification, err |-> "nil"]
        ELSE [n |-> v.n, err |-> "nil"]

\* txn.SetEntry(badger.NewEntry(key, value)) and the commit of db.Update.
setEntry(kv, key, value) ==
    [k \in DOMAIN kv \cup {key} |-> IF k = key THEN value ELSE kv[k]]

\* createNotification whose key leaves out the identifier (the format of
\* line 44 in place of that of line 102).
createNotification_inboxKey(inboxID, notification, uuidNew, setErr, kv) ==
    LET withID == [notification EXCEPT !.ID = uuidNew]
        m      == jsonMarshal(withID)
    IN  IF m.err # "nil"
        THEN [n |-> zeroNotification, err |-> m.err, kv |-> kv]
        ELSE IF setErr # "nil"
        THEN [n |-> zeroNotification, err |-> setErr, kv |-> kv]
        ELSE [n |-> zeroNotification, err |-> "nil",
              kv |-> setEntry(kv, prefixOf(inboxID), m.bytes)]

\* createNotification without the assignment of line 94: the record keeps
\* the id field the caller supplied.
createNotification_callerID(inboxID, notification, uuidNew, setErr, kv) ==
    LET m == jsonMarshal(notification)
    IN  IF m.err # "nil"
        THEN [n |-> zeroNotification, err |-> m.err, kv |-> kv]
        ELSE IF setErr # "nil"
        THEN [n |-> zeroNotification, err |-> setErr, kv |-> kv]
        ELSE [n |-> zeroNotification, err |-> "nil",
              kv |-> setEntry(kv, keyOf(inboxID, notification.ID), m.bytes)]

\* func createNotification(inboxID string, notification Notification)
\* uuidNew is the value of uuid.New().String(); setErr is the error, if any,
\* that the write transaction reports.
createNotification(inboxID, notification, uuidNew, setErr, kv) ==
    LET withID == [notification EXCEPT !.ID = uuidNew]
        m      == jsonMarshal(withID)
    IN  IF m.err # "nil"
        THEN [n |-> zeroNotification, err |-> m.err, kv |-> kv]
        ELSE IF setErr # "nil"
        THEN [n |-> zeroNotification, err |-> setErr, kv |-> kv]
        ELSE [n |-> zeroNotification, err |-> "nil",
              kv |-> setEntry(kv, keyOf(inboxID, withID.ID), m.bytes)]

\* createNotification writing the record in two transactions: first the
\* text without its end, then the whole text.
createTxns_twoWrites(inboxID, notification, uuidNew) ==
    LET withID == [notification EXCEPT !.ID = uuidNew]
        m      == jsonMarshal(withID)
        key    == keyOf(inboxID, withID.ID)
    IN  << << [key |-> key, value |-> [m.bytes EXCEPT !.closed = FALSE]] >>,
           << [key |-> key, value |-> m.bytes] >> >>

\* The write transactions of createNotification, each the sequence of the
\* entries it sets: one db.Update with one txn.SetEntry of the marshalled
\* record under the composite key.
createTxns(inboxID, notification, uuidNew) ==
    LET withID == [notification EXCEPT !.ID = uuidNew]
        m      == jsonMarshal(withID)
    IN  << << [key |-> keyOf(inboxID, withID.ID), value |-> m.bytes] >> >>

\* The commit of a write transaction: its entries become visible together.
RECURSIVE commit(_, _)
commit(kv, entries) ==
    IF entries = <<>> THEN kv
    ELSE commit(setEntry(kv, Head(entries).key, Head(entries).value), Tail(entries))

----------------------------------------------------------------------------
(* Projection layer                                                        *)

\* type stringTransform = func(string) string is a function on the strings
\* it is applied to; idsOf(ns) is that domain for a listing.
idsOf(ns) == { ns[i].ID : i \in 1..Len(ns) }

\* mapNotificationsID filling the result from the last index down.
mapNotificationsID_reversed(ns, transform) ==
    [i \in 1..Len(ns) |-> transform[ns[Len(ns) + 1 - i].ID]]

\* func mapNotificationsID(ns []Notification, transform stringTransform) []string
mapNotificationsID(ns, transform) ==
    [i \in 1..Len(ns) |-> transform[ns[i].ID]]

\* func makeLDNInbox(inboxID string, makeID stringTransform, ns []Notification) LDNInbox
makeLDNInbox(inboxID, makeID, ns) ==
    [Context  |-> "http://www.w3.org/ns/ldp",
     ID       |-> inboxID,
     Contains |-> mapNotificationsID(ns, makeID)]

\* func makeLDNotification(makeID stringTransform, n Notification) LDNotification
makeLDNotification(makeID, n) ==
    [Context |-> "https://www.w3.org/ns/activitystreams",
     ID      |-> makeID[n.ID],
     Type    |-> "Announce",
     Actor   |-> n.Actor,
     Object  |-> n.Object,
     Target  |-> n.Target,
     Updated |-> n.Updated]

----------------------------------------------------------------------------
(* http.ResponseWriter: what the client receives.  status = 0 until the    *)
(* header has been written; later WriteHeader calls and header changes     *)
(* have no effect, later writes are appended to the body.                  *)

newResponse ==
    [status |-> 0, contentType |-> <<>>, location |-> <<>>, body |-> <<>>]

\* w.Header().Set("content-type", v)
setContentType(w, v) == IF w.status # 0 THEN w ELSE [w EXCEPT !.contentType = v]

\* w.Header().Set("location", v)
setLocation(w, v) == IF w.status # 0 THEN w ELSE [w EXCEPT !.location = v]

\* w.WriteHeader(code)
writeHeader(w, code) == IF w.status # 0 THEN w ELSE [w EXCEPT !.status = code]

\* w.Write(chunk), also the write made by json.NewEncoder(w).Encode(v);
\* a chunk is <<kind, payload>>.
write(w, chunk) ==
    LET w1 == writeHeader(w, 200)
    IN  [w1 EXCEPT !.body = Append(@, chunk)]

\* http.Error(w, msg, code)
httpError(w, msg, code) ==
    write(writeHeader(setContentType(w, <<"text/plain; charset=utf-8">>), code),
          <<"text", msg>>)

noCall == [n |-> zeroNotification, ns |-> <<>>, err |-> "nil"]

----------------------------------------------------------------------------
(* HTTP handlers.  Each yields the response, the store after the request,  *)
(* the result of the storage call it made (call) and whether it stored a   *)
(* record (stored) or drew an identifier (drew).                           *)

\* The POST branch without the return that follows the decode error: the
\* 400 is written and the zero notification is created all the same.
handleInboxPost_noReturn(host, inboxURN, body, uuidNew, setErr, kv) ==
    LET d  == jsonUnmarshal(body)
        w0 == IF d.err # "nil" THEN httpError(newResponse, <<d.err>>, 400)
              ELSE newResponse
        c  == createNotification(inboxURN, d.n, uuidNew, setErr, kv)
    IN  IF c.err # "nil"
        THEN [w |-> httpError(w0, <<c.err>>, 400), kv |-> c.kv,
              call |-> [noCall EXCEPT !.err = c.err],
              stored |-> FALSE, drew |-> TRUE]
        ELSE [w |-> writeHeader(
                      setLocation(
                        setContentType(w0, <<"application/ld+json">>),
                        memberURI(host, inboxURN, c.n.ID)),
                      201),
              kv |-> c.kv,
              call |-> [noCall EXCEPT !.n = c.n],
              stored |-> TRUE, drew |-> TRUE]

\* handleInbox, branch r.Method == http.MethodPost
handleInboxPost(host, inboxURN, body, uuidNew, setErr, kv) ==
    LET d == jsonUnmarshal(body)
        c == createNotification(inboxURN, d.n, uuidNew, setErr, kv)
    IN  IF d.err # "nil"
        THEN [w |-> httpError(newResponse, <<d.err>>, 400), kv |-> kv,
              call |-> noCall, stored |-> FALSE, drew |-> FALSE]
        ELSE IF c.err # "nil"
        THEN [w |-> httpError(newResponse, <<c.err>>, 400), kv |-> c.kv,
              call |-> [noCall EXCEPT !.err = c.err],
              stored |-> FALSE, drew |-> TRUE]
        ELSE [w |-> writeHeader(
                      setLocation(
                        setContentType(newResponse, <<"application/ld+json">>),
                        memberURI(host, inboxURN, c.n.ID)),
                      201),
              kv |-> c.kv,
              call |-> [noCall EXCEPT !.n = c.n],
              stored |-> TRUE, drew |-> TRUE]

\* handleInbox, branch r.Method == http.MethodGet
handleInboxGet(host, inboxURN, kv) ==
    LET g       == getInbox(inboxURN, kv)
        inboxID == inboxURI(host, inboxURN)
        makeID  == [id \in idsOf(g.ns) |-> inboxID \o <<"/">> \o id]
        inbox   == makeLDNInbox(inboxID, makeID, g.ns)
    IN  IF g.err # "nil"
        THEN [w |-> httpError(newResponse, <<g.err>>, 400), kv |-> kv,
              call |-> [noCall EXCEPT !.err = g.err],
              stored |-> FALSE, drew |-> FALSE]
        ELSE [w |-> write(setContentType(newResponse, <<"application/ld+json">>),
                          <<"LDNInbox", inbox>>),
              kv |-> kv,
              call |-> [noCall EXCEPT !.ns = g.ns],
              stored |-> FALSE, drew |-> FALSE]

\* func handleInbox(w http.ResponseWriter, r *http.Request)
handleInbox(method, host, inboxURN, body, uuidNew, setErr, kv) ==
    IF method = "POST"
    THEN handleInboxPost(host, inboxURN, body, uuidNew, setErr, kv)
    ELSE IF method = "GET"
    THEN handleInboxGet(host, inboxURN, kv)
    ELSE [w |-> httpError(newResponse, <<"Not Found">>, 404), kv |-> kv,
          call |-> noCall, stored |-> FALSE, drew |-> FALSE]

\* handleNotification with a return after the 404 of the non-GET branch.
handleNotification_return(method, host, inboxURN, notificationID, kv) ==
    LET g  == getNotification(inboxURN, notificationID, kv)
        makeID == [id \in {g.n.ID} |-> memberURI(host, inboxURN, id)]
        n  == makeLDNotification(makeID, g.n)
    IN  IF method # "GET"
        THEN [w |-> write(writeHeader(newResponse, 404), <<"text", <<"Not Found">>>>),
              kv |-> kv, call |-> noCall, stored |-> FALSE, drew |-> FALSE]
        ELSE [w |-> write(setContentType(newResponse, <<"application/ld+json">>),
                          <<"LDNotification", n>>),
              kv |-> kv,
              call |-> [noCall EXCEPT !.n = g.n],
              stored |-> FALSE, drew |-> FALSE]

\* func handleNotification(w http.ResponseWriter, r *http.Request)
handleNotification(method, host, inboxURN, notificationID, kv) ==
    LET w0 == IF method # "GET"
              THEN write(writeHeader(newResponse, 404), <<"text", <<"Not Found">>>>)
              ELSE newResponse
        g  == getNotification(inboxURN, notificationID, kv)
        makeID == [id \in {g.n.ID} |-> memberURI(host, inboxURN, id)]
        n  == makeLDNotification(makeID, g.n)
    IN  IF g.err # "nil"
        THEN [w |-> httpError(w0, <<"Internal Server Error">>, 500), kv |-> kv,
              call |-> [noCall EXCEPT !.err = g.err],
              stored |-> FALSE, drew |-> FALSE]
        ELSE [w |-> write(setContentType(w0, <<"application/ld+json">>),
                          <<"LDNotification", n>>),
              kv |-> kv,
              call |-> [noCall EXCEPT !.n = g.n],
              stored |-> FALSE, drew |-> FALSE]

----------------------------------------------------------------------------
(* Inputs                                                                  *)

\* Values of the {URN} path variable; the router accepts any path segment,
\* "-" included.
Inboxes == { <<"a">>, <<"a", "-", "b">> }

\* Values of r.Host.
Hosts == { <<"h">> }

\* uuid.New().String(): hexadecimal groups joined by "-", of fixed length
\* (shortened here to two groups of one digit).
UUID(i) == <<Alphabet[i + 1], "-", "4">>

UUIDs == { UUID(i) : i \in 1..MaxIds }

\* Values of the {ID} path variable.
NotificationIDs == UUIDs \cup { <<"b", "-">> \o UUID(1), <<>> }

\* A notification whose id field is set by the caller, and one with a byte
\* that is not valid UTF-8.
nPlain == Notification(UUID(1), <<"u", "1">>, <<"o", "1">>, <<"t", "1">>, <<"2024-01-01">>)

nRaw == Notification(<<>>, <<"xFF">>, <<"o", "2">>, <<>>, <<>>)

Notifications == { nPlain, nRaw }

\* Request bodies: the two notifications as JSON, and a text cut short.
bodyOf(n, closed) == jsonText(n.ID, n.Actor, n.Object, n.Target, n.Updated, closed)

Bodies == { bodyOf(nPlain, TRUE), bodyOf(nRaw, TRUE), bodyOf(nPlain, FALSE) }

Methods == { "GET", "POST", "PUT" }

\* Arguments of a direct call of makeLDNInbox: listings of at most MaxList
\* notifications, duplicates included, and two id-to-URI transforms.
Listed == { nPlain, [nRaw EXCEPT !.ID = UUID(2)] }

Listings == UNION { [1..k -> Listed] : k \in 0..MaxList }

Transforms(selfURI, ns) ==
    { [id \in idsOf(ns) |-> selfURI \o <<"/">> \o id],
      [id \in idsOf(ns) |-> <<"urn:uuid:">> \o id] }

\* Outcome of the write transaction: committed, or refused by the store.
SetErrs == { "nil", "Txn is too big to fit into one request" }

----------------------------------------------------------------------------
(* State                                                                   *)

VARIABLES
    db,       \* the badger store: key |-> stored bytes
    issued,   \* identifiers the generator has handed out
    created,  \* history: <<inboxID, id>> of every successful create
    req,      \* the last call or request and its arguments
    ret,      \* what the storage-layer call returned
    w,        \* the HTTP response of the last request
    ld,       \* the last direct call of makeLDNInbox and its result
    writer,   \* a createNotification in progress, step by step
    reader    \* a getInbox or getNotification in progress, step by step

vars == <<db, issued, created, req, ret, w, ld, writer, reader>>

idleWriter ==
    [pc |-> "idle", inboxID |-> <<>>, uuid |-> <<>>, txns |-> <<>>,
     pending |-> <<>>]

idleReader ==
    [pc |-> "idle", op |-> "none", inboxID |-> <<>>, notificationID |-> <<>>,
     snap |-> [k \in {} |-> zeroNotification], keys |-> <<>>, i |-> 0,
     ns |-> <<>>, n |-> zeroNotification, err |-> "nil"]

noLD == [kind |-> "none", self |-> <<>>, makeID |-> <<>>, ns |-> <<>>,
         val |-> makeLDNInbox(<<>>, <<>>, <<>>)]

emptyDB == [k \in {} |-> zeroNotification]

noBody == bodyOf(zeroNotification, TRUE)

Request(op, method, host, inboxID, notificationID, n, body, uuidNew) ==
    [op |-> op, method |-> method, host |-> host, inboxID |-> inboxID,
     notificationID |-> notificationID, n |-> n, body |-> body,
     uuid |-> uuidNew]

Init ==
    /\ db = emptyDB
    /\ issued = {}
    /\ created = {}
    /\ req = Request("none", "", <<>>, <<>>, <<>>, zeroNotification, noBody, <<>>)
    /\ ret = noCall
    /\ w = newResponse
    /\ ld = noLD
    /\ writer = idleWriter
    /\ reader = idleReader

\* A direct call of createNotification.
CallCreateNotification ==
    \E inboxID \in Inboxes, n \in Notifications, u \in UUIDs \ issued,
       setErr \in SetErrs :
        LET c == createNotification(inboxID, n, u, setErr, db)
        IN  /\ db' = c.kv
            /\ issued' = issued \cup {u}
            /\ created' = IF c.err = "nil" THEN created \cup {<<inboxID, u>>}
                          ELSE created
            /\ req' = Request("createNotification", "", <<>>, inboxID, <<>>, n,
                              noBody, u)
            /\ ret' = [noCall EXCEPT !.n = c.n, !.err = c.err]
            /\ w' = newResponse
            /\ ld' = noLD
            /\ UNCHANGED <<writer, reader>>

\* A direct call of getInbox.
CallGetInbox ==
    \E inboxID \in Inboxes :
        LET g == getInbox(inboxID, db)
        IN  /\ req' = Request("getInbox", "", <<>>, inboxID, <<>>,
                              zeroNotification, noBody, <<>>)
            /\ ret' = [noCall EXCEPT !.ns = g.ns, !.err = g.err]
            /\ w' = newResponse
            /\ ld' = noLD
            /\ UNCHANGED <<writer, reader>>
            /\ UNCHANGED <<db, issued, created>>

\* A direct call of getNotification.
CallGetNotification ==
    \E inboxID \in Inboxes, id \in NotificationIDs :
        LET g == getNotification(inboxID, id, db)
        IN  /\ req' = Request("getNotification", "", <<>>, inboxID, id,
                              zeroNotification, noBody, <<>>)
            /\ ret' = [noCall EXCEPT !.n = g.n, !.err = g.err]
            /\ w' = newResponse
            /\ ld' = noLD
            /\ UNCHANGED <<writer, reader>>
            /\ UNCHANGED <<db, issued, created>>

\* POST /texts/{URN}/inbox
PostInbox ==
    \E host \in Hosts, inboxURN \in Inboxes, body \in Bodies,
       u \in UUIDs \ issued, setErr \in SetErrs :
        LET h == handleInbox("POST", host, inboxURN, body, u, setErr, db)
        IN  /\ db' = h.kv
            /\ issued' = IF h.drew THEN issued \cup {u} ELSE issued
            /\ created' = IF h.stored THEN created \cup {<<inboxURN, u>>}
                          ELSE created
            /\ req' = Request("handleInbox", "POST", host, inboxURN, <<>>,
                              zeroNotification, body,
                              IF h.drew THEN u ELSE <<>>)
            /\ ret' = h.call
            /\ w' = h.w
            /\ ld' = noLD
            /\ UNCHANGED <<writer, reader>>

\* GET /texts/{URN}/inbox
GetInboxRequest ==
    \E host \in Hosts, inboxURN \in Inboxes :
        LET h == handleInbox("GET", host, inboxURN, noBody, <<>>, "nil", db)
        IN  /\ req' = Request("handleInbox", "GET", host, inboxURN, <<>>,
                              zeroNotification, noBody, <<>>)
            /\ ret' = h.call
            /\ w' = h.w
            /\ ld' = noLD
            /\ UNCHANGED <<writer, reader>>
            /\ UNCHANGED <<db, issued, created>>

\* Any other method on /texts/{URN}/inbox
OtherInboxRequest ==
    \E host \in Hosts, inboxURN \in Inboxes, method \in Methods \ {"GET", "POST"} :
        LET h == handleInbox(method, host, inboxURN, noBody, <<>>, "nil", db)
        IN  /\ req' = Request("handleInbox", method, host, inboxURN, <<>>,
                              zeroNotification, noBody, <<>>)
            /\ ret' = h.call
            /\ w' = h.w
            /\ ld' = noLD
            /\ UNCHANGED <<writer, reader>>
            /\ UNCHANGED <<db, issued, created>>

\* Any method on /texts/{URN}/inbox/{ID}
NotificationRequest ==
    \E method \in Methods, host \in Hosts, inboxURN \in Inboxes,
       id \in NotificationIDs :
        LET h == handleNotification(method, host, inboxURN, id, db)
        IN  /\ req' = Request("handleNotification", method, host, inboxURN, id,
                              zeroNotification, noBody, <<>>)
            /\ ret' = h.call
            /\ w' = h.w
            /\ ld' = noLD
            /\ UNCHANGED <<writer, reader>>
            /\ UNCHANGED <<db, issued, created>>

\* A direct call of makeLDNInbox.
CallMakeLDNInbox ==
    \E host \in Hosts, inboxURN \in Inboxes, ns \in Listings :
        \E makeID \in Transforms(inboxURI(host, inboxURN), ns) :
            /\ ld' = [kind |-> "LDNInbox", self |-> inboxURI(host, inboxURN),
                      makeID |-> makeID, ns |-> ns,
                      val |-> makeLDNInbox(inboxURI(host, inboxURN), makeID, ns)]
            /\ req' = Request("makeLDNInbox", "", host, inboxURN, <<>>,
                              zeroNotification, noBody, <<>>)
            /\ ret' = noCall
            /\ w' = newResponse
            /\ UNCHANGED <<db, issued, created, writer, reader>>

Next ==
    \/ CallMakeLDNInbox
    \/ CallCreateNotification
    \/ CallGetInbox
    \/ CallGetNotification
    \/ PostInbox
    \/ GetInboxRequest
    \/ OtherInboxRequest
    \/ NotificationRequest

Spec == Init /\ [][Next]_vars

----------------------------------------------------------------------------
(* The store with a value that is not a notification.  db is the handle of *)
(* the whole package, so a value under a key of the form "<inbox>-..." may *)
(* come from another writer, or reach the reader damaged; it is modelled   *)
(* as a JSON text cut short, stored under a key that sorts between the     *)
(* keys of the first and the second identifier of inbox "a".               *)

ForeignKey == <<"a", "-", "2">>

ForeignWrite ==
    /\ ForeignKey \notin DOMAIN db
    /\ db' = setEntry(db, ForeignKey, bodyOf(nPlain, FALSE))
    /\ req' = Request("foreignWrite", "", <<>>, <<>>, <<>>, zeroNotification,
                      noBody, <<>>)
    /\ ret' = noCall
    /\ w' = newResponse
    /\ ld' = noLD
    /\ UNCHANGED <<issued, created, writer, reader>>

NextCorrupt ==
    \/ Next
    \/ ForeignWrite

SpecCorrupt == Init /\ [][NextCorrupt]_vars

TypeOK ==
    /\ issued \subseteq UUIDs
    /\ created \subseteq (Inboxes \X UUIDs)
    /\ w.status \in {0, 200, 201, 400, 404, 500}

----------------------------------------------------------------------------
(* Requests running concurrently.  A create and a read advance step by     *)
(* step in any interleaving.  badger runs the closure of db.Update in a     *)
(* write transaction whose entries are applied to the store at its commit,  *)
(* and the closure of db.View in a read transaction that reads the store    *)
(* as it was when the transaction began (snap).                             *)

\* createNotification up to the start of db.Update (lines 94-101).
WriterBegin ==
    /\ writer.pc = "idle"
    /\ \E inboxID \in Inboxes, n \in Notifications, u \in UUIDs \ issued :
          /\ writer' = [pc |-> "update", inboxID |-> inboxID, uuid |-> u,
                        txns |-> createTxns(inboxID, n, u), pending |-> <<>>]
          /\ issued' = issued \cup {u}
    /\ UNCHANGED <<db, created, req, ret, w, ld, reader>>

\* txn.SetEntry (lines 102-105): the entry is held by the transaction.
WriterSetEntry ==
    /\ writer.pc = "update"
    /\ Len(writer.pending) < Len(Head(writer.txns))
    /\ writer' = [writer EXCEPT
                    !.pending = Append(@, Head(writer.txns)[Len(@) + 1])]
    /\ UNCHANGED <<db, issued, created, req, ret, w, ld, reader>>

\* The end of the closure (line 106): the transaction commits, or the store
\* refuses it and nothing is written (lines 107-109).
WriterCommit ==
    /\ writer.pc = "update"
    /\ Len(writer.pending) = Len(Head(writer.txns))
    /\ \E setErr \in SetErrs :
          IF setErr # "nil"
          THEN /\ writer' = idleWriter
               /\ UNCHANGED <<db, created>>
          ELSE /\ db' = commit(db, writer.pending)
               /\ IF Len(writer.txns) = 1
                  THEN /\ writer' = idleWriter
                       /\ created' = created \cup {<<writer.inboxID, writer.uuid>>}
                  ELSE /\ writer' = [writer EXCEPT !.txns = Tail(@),
                                                   !.pending = <<>>]
                       /\ created' = created
    /\ UNCHANGED <<issued, req, ret, w, ld, reader>>

\* getInbox up to it.Seek(prefix) (lines 39-45).
ReaderBeginScan ==
    /\ reader.pc \in {"idle", "done"}
    /\ \E inboxID \in Inboxes :
          LET keys == SortedKeys(DOMAIN db)
          IN  reader' = [idleReader EXCEPT
                           !.pc = "scan", !.op = "getInbox",
                           !.inboxID = inboxID, !.snap = db, !.keys = keys,
                           !.i = Seek(keys, prefixOf(inboxID))]
    /\ UNCHANGED <<db, issued, created, req, ret, w, ld, writer>>

\* One turn of the loop of getInbox (lines 45-59), or its end (lines 60-66).
ReaderScanStep ==
    /\ reader.pc = "scan"
    /\ IF \/ reader.i > Len(reader.keys)
          \/ ~HasPrefix(reader.keys[reader.i], prefixOf(reader.inboxID))
       THEN reader' = [reader EXCEPT !.pc = "done"]
       ELSE LET u == jsonUnmarshal(reader.snap[reader.keys[reader.i]])
            IN  IF u.err # "nil"
                THEN reader' = [reader EXCEPT !.pc = "done", !.ns = <<>>,
                                              !.err = u.err]
                ELSE reader' = [reader EXCEPT !.ns = Append(@, u.n),
                                              !.i = @ + 1]
    /\ UNCHANGED <<db, issued, created, req, ret, w, ld, writer>>

\* getNotification up to the start of db.View (lines 70-71).
ReaderBeginGet ==
    /\ reader.pc \in {"idle", "done"}
    /\ \E inboxID \in Inboxes, id \in NotificationIDs :
          reader' = [idleReader EXCEPT
                       !.pc = "get", !.op = "getNotification",
                       !.inboxID = inboxID, !.notificationID = id,
                       !.snap = db]
    /\ UNCHANGED <<db, issued, created, req, ret, w, ld, writer>>

\* txn.Get, item.Value and the return of getNotification (lines 72-90).
ReaderGet ==
    /\ reader.pc = "get"
    /\ LET g == getNotification(reader.inboxID, reader.notificationID,
                                reader.snap)
       IN  reader' = [reader EXCEPT !.pc = "done", !.n = g.n, !.err = g.err]
    /\ UNCHANGED <<db, issued, created, req, ret, w, ld, writer>>

NextTxn ==
    \/ WriterBegin
    \/ WriterSetEntry
    \/ WriterCommit
    \/ ReaderBeginScan
    \/ ReaderScanStep
    \/ ReaderBeginGet
    \/ ReaderGet

SpecTxn == Init /\ [][NextTxn]_vars

----------------------------------------------------------------------------
(* Properties                                                              *)

\* The record stored for a create of the history.
storedRecord(c) == jsonUnmarshal(db[keyOf(c[1], c[2])]).n

\* Number of successful creates into an inbox.
createdIn(inboxID) == Cardinality({ c \in created : c[1] = inboxID })

\* C1: create/get round trip.  After a successful create(inboxID, n) that
\* returned r, r.id is a non-empty generated id and getOne(inboxID, r.id)
\* returns the stored record with the actor, object, target and updated of n.
C1_CreateGetRoundTrip ==
    (req.op = "createNotification" /\ ret.err = "nil") =>
        LET g == getNotification(req.inboxID, ret.n.ID, db)
        IN  /\ ret.n.ID # <<>>
            /\ g.err = "nil"
            /\ g.n.ID = ret.n.ID
            /\ g.n.Actor = req.n.Actor
            /\ g.n.Object = req.n.Object
            /\ g.n.Target = req.n.Target
            /\ g.n.Updated = req.n.Updated

\* C2: a POST answered 201 carries a Location header equal to the public URI
\* of the member just created, built from the id under which the record was
\* stored, and a GET of that member returns the notification.
C2_PostLocation ==
    (req.op = "handleInbox" /\ req.method = "POST" /\ w.status = 201) =>
        /\ keyOf(req.inboxID, req.uuid) \in DOMAIN db
        /\ w.location = memberURI(req.host, req.inboxID, req.uuid)
        /\ LET g == handleNotification("GET", req.host, req.inboxID, req.uuid, db)
           IN  /\ g.w.status = 200
               /\ g.w.body[1][2].ID = w.location

\* C3: getOne of a pair with no stored record fails with a NotFound error;
\* it does not return success with an empty record.
C3_GetOneNotFound ==
    ( /\ req.op = "getNotification"
      /\ keyOf(req.inboxID, req.notificationID) \notin DOMAIN db ) =>
        ret.err = "Key not found"

\* C4: listByInbox(A) returns only records that were created in inbox A.
C4_InboxIsolation ==
    req.op = "getInbox" =>
        \A i \in 1..Len(ret.ns) : <<req.inboxID, ret.ns[i].ID>> \in created

\* C5: when more than cap notifications have been written to an inbox,
\* listByInbox of that inbox returns exactly cap records and no error (so
\* that the length of the result does not exceed cap).
C5_CappedListing ==
    (req.op = "getInbox" /\ createdIn(req.inboxID) > maxResponseSize) =>
        /\ ret.err = "nil"
        /\ Len(ret.ns) <= maxResponseSize
        /\ Len(ret.ns) = maxResponseSize

\* C6: after N successful creates into one inbox, 1 <= N <= cap,
\* listByInbox of that inbox returns exactly N records, and getOne of each
\* returned record's id returns that same record.
C6_ListThenGetOne ==
    ( /\ req.op = "getInbox"
      /\ createdIn(req.inboxID) >= 1
      /\ createdIn(req.inboxID) <= maxResponseSize ) =>
        /\ ret.err = "nil"
        /\ Len(ret.ns) = createdIn(req.inboxID)
        /\ \A i \in 1..Len(ret.ns) :
              getNotification(req.inboxID, ret.ns[i].ID, db).n = ret.ns[i]

\* C7: listByInbox of an inbox into which no create was made returns the
\* empty sequence and no error, whatever was created in other inboxes.
C7_EmptyInbox ==
    (req.op = "getInbox" /\ createdIn(req.inboxID) = 0) =>
        (ret.ns = <<>> /\ ret.err = "nil")

\* C8: a POST whose body does not parse is answered 400 with a non-empty
\* error message and changes nothing: the store, and so the listing of
\* every inbox, is as it was before the request.
C8_MalformedPost ==
    [][ ( /\ req'.op = "handleInbox"
          /\ req'.method = "POST"
          /\ jsonUnmarshal(req'.body).err # "nil" ) =>
            /\ w'.status = 400
            /\ Len(w'.body) = 1
            /\ w'.body[1][1] = "text"
            /\ w'.body[1][2] # <<>>
            /\ w'.body[1][2][1] # ""
            /\ db' = db
            /\ created' = created
            /\ \A i \in Inboxes : getInbox(i, db') = getInbox(i, db) ]_vars

\* A malformed POST has been answered while the store held records.
C8_Witness ==
    /\ req.op = "handleInbox"
    /\ req.method = "POST"
    /\ jsonUnmarshal(req.body).err # "nil"
    /\ w.status = 400
    /\ DOMAIN db # {}

\* C9: a GET of a member path is answered 500 when the lookup fails (no
\* record at the key, or a value that does not decode), and 200 only when a
\* stored record was found and decoded.
C9_LookupFailure500 ==
    (req.op = "handleNotification" /\ req.method = "GET") =>
        LET v == viewNotification(req.inboxID, req.notificationID, db)
        IN  /\ v.err # "nil" => w.status = 500
            /\ w.status = 200 => v.err = "nil"

\* C10: every stored record carries the generated id, not the id field the
\* caller supplied: each successful create is stored under the key of its
\* own generated id with that id in the record, so creates with identical
\* records are stored as distinct records and ids are unique in an inbox.
C10_ServerGeneratedIds ==
    /\ \A c \in created :
          /\ keyOf(c[1], c[2]) \in DOMAIN db
          /\ storedRecord(c).ID = c[2]
          /\ c[2] \in issued
    /\ \A k \in DOMAIN db : \E c \in created : k = keyOf(c[1], c[2])
    /\ Cardinality(DOMAIN db) = Cardinality(created)
    /\ \A c1, c2 \in created :
          (c1 # c2 /\ c1[1] = c2[1]) => storedRecord(c1).ID # storedRecord(c2).ID

\* A second create into the same inbox, with the same record, whose
\* caller-supplied id is the id of the record stored first.
C10_Witness ==
    /\ req.op = "createNotification"
    /\ ret.err = "nil"
    /\ req.n.ID # <<>>
    /\ req.n.ID # req.uuid
    /\ <<req.inboxID, req.n.ID>> \in created
    /\ [storedRecord(<<req.inboxID, req.n.ID>>) EXCEPT !.ID = <<>>]
         = [storedRecord(<<req.inboxID, req.uuid>>) EXCEPT !.ID = <<>>]

\* The keys a scan of the inbox visits, in iteration order.
scannedKeys(inboxID) ==
    SelectSeq(SortedKeys(DOMAIN db), LAMBDA k : HasPrefix(k, prefixOf(inboxID)))

\* C11: the container built by makeLDNInbox has the given self identifier
\* and, at each position i, the transform of the id of the i-th notification
\* given: same length, same order, duplicates kept.  The container served by
\* a GET of an inbox so lists one member URI per stored notification that
\* the scan visits, in the iteration order of the keys.
C11_ContainerOrder ==
    /\ ld.kind = "LDNInbox" =>
          /\ ld.val.ID = ld.self
          /\ Len(ld.val.Contains) = Len(ld.ns)
          /\ \A i \in 1..Len(ld.ns) : ld.val.Contains[i] = ld.makeID[ld.ns[i].ID]
    /\ (req.op = "handleInbox" /\ req.method = "GET" /\ w.status = 200) =>
          LET c    == w.body[1][2]
              keys == scannedKeys(req.inboxID)
              self == inboxURI(req.host, req.inboxID)
          IN  /\ w.body[1][1] = "LDNInbox"
              /\ c.ID = self
              /\ Len(c.Contains) = Len(keys)
              /\ \A i \in 1..Len(keys) :
                    c.Contains[i] = self \o <<"/">> \o jsonUnmarshal(db[keys[i]]).n.ID

\* makeLDNInbox has been applied to a listing of two different notifications.
C11_Witness ==
    /\ ld.kind = "LDNInbox"
    /\ Len(ld.ns) = 2
    /\ ld.ns[1].ID # ld.ns[2].ID
    /\ Len(ld.val.Contains) = 2

\* C12: a request to the member path with a method other than GET gets the
\* 404 and "Not Found", and the handler goes on: the lookup is made and the
\* member resource is written after the 404.
C12_NonGetFallsThrough ==
    (req.op = "handleNotification" /\ req.method # "GET") =>
        LET g == getNotification(req.inboxID, req.notificationID, db)
            makeID == [id \in {g.n.ID} |-> memberURI(req.host, req.inboxID, id)]
        IN  /\ w.status = 404
            /\ Len(w.body) = 2
            /\ w.body[1] = <<"text", <<"Not Found">>>>
            /\ w.body[2][1] = "LDNotification"
            /\ w.body[2][2] = makeLDNotification(makeID, g.n)
            /\ ret.n = g.n

\* A non-GET request has been made for a record that is stored.
C12_Witness ==
    /\ req.op = "handleNotification"
    /\ req.method = "PUT"
    /\ keyOf(req.inboxID, req.notificationID) \in DOMAIN db
    /\ Len(w.body) = 2
    /\ w.body[2][2].Actor # <<>>

\* C14: the store is append-only.  Every step keeps every stored key with
\* its value, so a record once created stays under its key unchanged, and
\* listByInbox and getOne (direct or through the GET handlers) leave the
\* store as it is.  The generator draws values it has not drawn before.
C14_AppendOnly ==
    [][ /\ \A k \in DOMAIN db : k \in DOMAIN db' /\ db'[k] = db[k]
        /\ \A c \in created :
              /\ c \in created'
              /\ keyOf(c[1], c[2]) \in DOMAIN db'
              /\ db'[keyOf(c[1], c[2])] = db[keyOf(c[1], c[2])]
        /\ (req'.op \in {"getInbox", "getNotification", "handleNotification"}
              \/ (req'.op = "handleInbox" /\ req'.method # "POST"))
              => db' = db ]_vars

\* A create has succeeded while an earlier record was stored.
C14_Witness ==
    /\ req.op \in {"createNotification", "handleInbox"}
    /\ req.uuid # <<>>
    /\ ret.err = "nil"
    /\ Cardinality(DOMAIN db) >= 2
    /\ Cardinality(created) >= 2

\* C16: getOne(A, x) returns a stored record only if that record was
\* created in inbox A with id x.
C16_PointLookupNoAlias ==
    (req.op = "getNotification" /\ ret.n # zeroNotification) =>
        <<req.inboxID, req.notificationID>> \in created

\* C13: when a value under the scanned prefix does not decode, listByInbox
\* fails with an error and returns no record at all (neither the records
\* decoded before it nor the listing without it); otherwise it returns the
\* record of every key under the prefix, in order, and no error.
C13_NoPartialListing ==
    (req.op = "getInbox" \/ (req.op = "handleInbox" /\ req.method = "GET")) =>
        LET keys == scannedKeys(req.inboxID)
            bad  == \E i \in 1..Len(keys) : jsonUnmarshal(db[keys[i]]).err # "nil"
        IN  IF bad
            THEN ret.err # "nil" /\ ret.ns = <<>>
            ELSE /\ ret.err = "nil"
                 /\ Len(ret.ns) = Len(keys)
                 /\ \A i \in 1..Len(keys) : ret.ns[i] = jsonUnmarshal(db[keys[i]]).n

\* An inbox has been listed whose second of three values does not decode.
C13_Witness ==
    /\ req.op = "getInbox"
    /\ ret.err # "nil"
    /\ Len(scannedKeys(req.inboxID)) = 3
    /\ jsonUnmarshal(db[scannedKeys(req.inboxID)[1]]).err = "nil"
    /\ jsonUnmarshal(db[scannedKeys(req.inboxID)[2]]).err # "nil"
    /\ jsonUnmarshal(db[scannedKeys(req.inboxID)[3]]).err = "nil"

\* Every key of kv is the key of a committed create and holds the whole
\* record of that create.
completeRecords(kv) ==
    \A k \in DOMAIN kv : \E c \in created :
        /\ k = keyOf(c[1], c[2])
        /\ jsonUnmarshal(kv[k]).err = "nil"
        /\ jsonUnmarshal(kv[k]).n.ID = c[2]

\* C15: in every interleaving of a create with a listing or a lookup, the
\* store a reader sees holds only whole records under their composite keys,
\* each of a create that has committed; the record of a create in progress
\* is in no reader's view before the commit, and a finished listing is the
\* listing of one committed state of the store.
C15_AtomicVisibility ==
    /\ completeRecords(db)
    /\ reader.pc # "idle" => completeRecords(reader.snap)
    /\ writer.pc = "update" =>
          /\ keyOf(writer.inboxID, writer.uuid) \notin DOMAIN db
          /\ keyOf(writer.inboxID, writer.uuid) \notin DOMAIN reader.snap
    /\ (reader.pc = "done" /\ reader.op = "getInbox") =>
          /\ reader.ns = getInbox(reader.inboxID, reader.snap).ns
          /\ reader.err = getInbox(reader.inboxID, reader.snap).err
          /\ \A i \in 1..Len(reader.ns) :
                \E c \in created : reader.ns[i].ID = c[2]
    /\ (reader.pc = "done" /\ reader.op = "getNotification"
          /\ reader.n # zeroNotification) =>
          \E c \in created : reader.n.ID = c[2]

\* A listing is under way that has read a record, and a create has
\* committed since it began.
C15_Witness ==
    /\ reader.pc = "scan"
    /\ Len(reader.ns) >= 1
    /\ DOMAIN reader.snap # DOMAIN db
    /\ writer.pc = "idle"

====
